---------------------------- MODULE Spec2Model ----------------------------
(* A model of src/ACO.py: the module-level script (geocoding, the two     *)
(* input checks, the call of solve_aco, plot_route) and solve_aco itself, *)
(* one action per block of the function.                                   *)
(*                                                                         *)
(* Numbers.  The program computes in IEEE doubles (numpy float64 for the  *)
(* matrices and everything derived from them).  The model computes in     *)
(* exact non-negative rationals extended with +inf and nan, which is what *)
(* float64 yields here for x/0, 0/0, inf/inf and inf*0 (numpy warns and   *)
(* continues, it does not raise).  A number is a pair <<n, d>>:           *)
(*   d > 0         the rational n/d in lowest terms                       *)
(*   <<1, 0>>      +inf                                                   *)
(*   <<0, 0>>      nan                                                    *)
(* Rounding, overflow and underflow of doubles are not modelled.          *)
EXTENDS Integers, Sequences, FiniteSets

VARIABLES
    pc,              \* position in the script / in solve_aco
    addresses,       \* the address list of the script (their coordinates)
    locations,       \* line 173: the geocoded locations
    start_location,  \* line 180: the chosen start index (-2 before input)
    n_ants, n_iterations, rho, q0,   \* parameters of solve_aco
    pheromone_matrix,
    best_route, best_distance,
    iteration,       \* number of completed iterations
    all_routes, all_distances,
    route, visited, total_distance,
    returned,        \* the value solve_aco returned (<<>> : none)
    plotted          \* plot_route's total distance (-1 : not plotted)

vars == <<pc, addresses, locations, start_location, n_ants, n_iterations, rho,
          q0, pheromone_matrix, best_route, best_distance, iteration,
          all_routes, all_distances, route, visited, total_distance,
          returned, plotted>>

-----------------------------------------------------------------------------
(* Bounds of the model. *)

\* n_ants * n_iterations, the number of routes one run builds, is at most this
MaxRuns == 4
\* a route under construction is not extended beyond this many entries
MaxRouteLen == 6

-----------------------------------------------------------------------------
(* Extended non-negative rationals. *)

RECURSIVE GCD(_, _)
GCD(a, b) == IF b = 0 THEN a ELSE GCD(b, a % b)

Norm(x) ==
    IF x[2] = 0 THEN (IF x[1] = 0 THEN <<0, 0>> ELSE <<1, 0>>)
    ELSE LET g == GCD(x[1], x[2]) IN <<x[1] \div g, x[2] \div g>>

R(n) == <<n, 1>>
Inf == <<1, 0>>
NaN == <<0, 0>>
IsNan(x) == x = NaN
IsFinite(x) == x[2] > 0

RMul(x, y) == Norm(<<x[1] * y[1], x[2] * y[2]>>)
RAdd(x, y) ==
    IF x = Inf /\ y = Inf THEN Inf
    ELSE Norm(<<x[1] * y[2] + y[1] * x[2], x[2] * y[2]>>)
RRecip(x) == Norm(<<x[2], x[1]>>)
RDiv(x, y) == RMul(x, RRecip(y))
\* x - y for finite x >= y
RSub(x, y) == Norm(<<x[1] * y[2] - y[1] * x[2], x[2] * y[2]>>)

\* x > y as doubles compare: false whenever a nan is involved
RGt(x, y) ==
    /\ ~IsNan(x) /\ ~IsNan(y)
    /\ IF x = Inf THEN y # Inf
       ELSE IF y = Inf THEN FALSE
       ELSE x[1] * y[2] > y[1] * x[2]
RLt(x, y) == RGt(y, x)
\* x == y as doubles compare: nan equals nothing
REq(x, y) == ~IsNan(x) /\ ~IsNan(y) /\ x = y

RECURSIVE RPow(_, _)
RPow(x, k) == IF k = 0 THEN R(1) ELSE RMul(x, RPow(x, k - 1))

\* sum(s): from 0, left to right
RECURSIVE RSumUpTo(_, _)
RSumUpTo(s, n) == IF n = 0 THEN R(0) ELSE RAdd(RSumUpTo(s, n - 1), s[n])
RSum(s) == RSumUpTo(s, Len(s))

-----------------------------------------------------------------------------
(* Inputs. *)

\* default parameters of solve_aco
alpha == 1
beta == 2

Abs(n) == IF n < 0 THEN -n ELSE n
\* The distance between two coordinate pairs.  geopy's geodesic is outside
\* the repository; what the program relies on is a symmetric non-negative
\* distance that is 0 for equal coordinates.  The model lays the locations
\* on an integer grid and measures in grid steps.
Dist(a, b) == Abs(a[1] - b[1]) + Abs(a[2] - b[2])

\* The address lists a run may start from, as the coordinates the geocoder
\* resolves each address to.  The second has two addresses that resolve to
\* the same point.
AddressBooks ==
    { << <<0, 0>>, <<1, 0>>, <<1, 1>>, <<0, 2>> >>,
      << <<0, 0>>, <<0, 0>>, <<1, 0>> >> }

\* rho: no evaporation, the default, full evaporation
RhoValues == { R(0), <<1, 2>>, R(1) }
\* q0: a threshold under which both branches of line 90 are taken, and 1
\* (exploitation only).  With q0 = 0 the runs are those of the first value
\* that never exploit.
Q0Values == { <<1, 2>>, R(1) }
\* values random.random() may return, in [0, 1)
RandomDraws == { R(0), <<1, 2>> }


-----------------------------------------------------------------------------
(* solve_aco's pure parts. *)

num_locations == Len(locations)
Indices == 0 .. num_locations - 1

\* line 52: distance_matrix[i, j]
distance_matrix(i, j) == Dist(locations[i + 1], locations[j + 1])

\* line 55: np.ones((num_locations, num_locations))
InitialPheromone == [i \in Indices |-> [j \in Indices |-> R(1)]]

\* lines 78-84: the score of location j
Score(P, current, vis, j) ==
    IF j \notin vis
    THEN RMul(RPow(P[current][j], alpha),
              RPow(RRecip(R(distance_matrix(current, j))), beta))
    ELSE R(0)

\* lines 76-84: the score list built by the for loop, one entry per
\* location (a 1-based sequence, entry j+1 for location j)
RECURSIVE ScoresUpTo(_, _, _, _)
ScoresUpTo(P, current, vis, n) ==
    IF n = 0 THEN <<>>
    ELSE Append(ScoresUpTo(P, current, vis, n - 1), Score(P, current, vis, n - 1))

Scores(P, current, vis) == ScoresUpTo(P, current, vis, num_locations)

\* line 87: [p / total_prob for p in probabilities]
RECURSIVE DivideAll(_, _, _)
DivideAll(scores, total_prob, n) ==
    IF n = 0 THEN <<>>
    ELSE Append(DivideAll(scores, total_prob, n - 1), RDiv(scores[n], total_prob))

\* lines 86-87: total_prob and the normalised list
Normalize(scores) == DivideAll(scores, RSum(scores), Len(scores))

\* max(probabilities): Python keeps the first item and replaces it by a later
\* one only when that one compares greater.  The position of the kept item.
RECURSIVE MaxPos(_, _)
MaxPos(s, n) ==
    IF n = 1 THEN 1
    ELSE LET m == MaxPos(s, n - 1)
         IN  IF RGt(s[n], s[m]) THEN n ELSE m

\* probabilities.index(x) for the item at position m: the first position
\* holding that very object or an equal value
IndexOf(s, m) ==
    CHOOSE k \in 1 .. m :
        /\ (k = m \/ REq(s[k], s[m]))
        /\ \A l \in 1 .. k - 1 : ~REq(s[l], s[m])

\* line 91: probabilities.index(max(probabilities)), as a location
Exploit(probabilities) ==
    IndexOf(probabilities, MaxPos(probabilities, Len(probabilities))) - 1


\* a slip in line 90: the comparison turned around
ExploitsInverted(r, threshold) == RGt(r, threshold)

\* line 90: random.random() < q0
Exploits(r, threshold) == RLt(r, threshold)

\* line 93: random.choices(range(n), weights=w) raises ValueError when the
\* total of the weights is not finite or not positive (CPython 3.9 and later)
ChoicesRaises(w) ==
    LET total == RSum(w) IN ~IsFinite(total) \/ ~RGt(total, R(0))
\* ... and otherwise returns an index of positive weight
ChoicesResults(w) ==
    IF ChoicesRaises(w) THEN {} ELSE {j \in Indices : RGt(w[j + 1], R(0))}


\* a slip in line 107: <= for <
ImprovesOrTies(total, best) == ~RGt(R(total), best)

\* line 107: total_distance < best_distance
Improves(total, best) == RLt(R(total), best)


\* a slip in line 101: the closing edge left out of the total
ClosingDistanceDropped(rt) == 0

\* line 101: the distance of the edge that closes the route
ClosingDistance(rt) == distance_matrix(rt[Len(rt)], rt[1])

\* line 112: pheromone_matrix *= (1 - rho)
Evaporate(P) == [i \in Indices |-> [j \in Indices |-> RMul(P[i][j], RSub(R(1), rho))]]


\* a slip in line 115: the deposit made on both directions of the edge
DepositSymmetric(P, a, b, d) ==
    [i \in Indices |-> [j \in Indices |->
        IF (i = a /\ j = b) \/ (i = b /\ j = a)
        THEN RAdd(P[i][j], RRecip(R(d))) ELSE P[i][j]]]

\* line 115: pheromone_matrix[a, b] += 1 / d
Deposit(P, a, b, d) ==
    [P EXCEPT ![a] = [P[a] EXCEPT ![b] = RAdd(P[a][b], RRecip(R(d)))]]

\* lines 114-115: the deposits of one route, edge by edge
RECURSIVE DepositRoute(_, _, _, _)
DepositRoute(P, rt, d, j) ==
    IF j = 0 THEN P
    ELSE Deposit(DepositRoute(P, rt, d, j - 1), rt[j], rt[j + 1], d)

\* lines 113-115: the deposits of the first n routes of the iteration
RECURSIVE DepositAll(_, _, _, _)
DepositAll(P, routes, dists, n) ==
    IF n = 0 THEN P
    ELSE DepositRoute(DepositAll(P, routes, dists, n - 1),
                      routes[n], dists[n], Len(routes[n]) - 1)


\* a slip in the nesting of lines 111-115: the update inside the ant loop
AllAntsDoneEarly == Len(all_routes) >= 1

\* line 67: the ant loop of the iteration is over
AllAntsDone == Len(all_routes) = n_ants

\* lines 141-146: plot_route's total distance
RECURSIVE PlotDistance(_, _)
PlotDistance(rt, i) ==
    IF i = 0 THEN 0
    ELSE PlotDistance(rt, i - 1) + Dist(locations[rt[i] + 1], locations[rt[i + 1] + 1])

\* line 174
TooFewLocations(locs) == Len(locs) < 2

\* a slip in line 181: > for >=
InvalidStartOffByOne(s, locs) == s < 0 \/ s > Len(locs)

\* line 181
InvalidStart(s, locs) == s < 0 \/ s >= Len(locs)

\* line 180: the numbers the user may enter, less one: the first and the
\* last location, and the two neighbours outside the range
StartInputs(n) == { -1, 0, n - 1, n }

\* line 173: the addresses the geocoder resolved, in order
RECURSIVE Geocoded(_, _, _)
Geocoded(addrs, ok, n) ==
    IF n = 0 THEN <<>>
    ELSE LET before == Geocoded(addrs, ok, n - 1)
         IN  IF n \in ok THEN Append(before, addrs[n]) ELSE before

-----------------------------------------------------------------------------
(* The state machine. *)

NoRoute == <<>>

\* The script calls solve_aco with its default parameters (50 ants, 1000
\* iterations, rho = 0.5, q0 = 0.9); the model lets the call take any of
\* the parameter values above and small numbers of ants and iterations.
Init ==
    /\ pc = "geocode"
    /\ addresses \in AddressBooks
    /\ locations = <<>>
    /\ start_location = -2
    /\ n_ants \in 1 .. MaxRuns
    /\ n_iterations \in 1 .. MaxRuns
    /\ n_ants * n_iterations <= MaxRuns
    /\ rho \in RhoValues
    /\ q0 \in Q0Values
    /\ pheromone_matrix = <<>>
    /\ best_route = NoRoute
    /\ best_distance = Inf
    /\ iteration = 0
    /\ all_routes = <<>>
    /\ all_distances = <<>>
    /\ route = <<>>
    /\ visited = {}
    /\ total_distance = 0
    /\ returned = NoRoute
    /\ plotted = -1

solverVars == <<pheromone_matrix, best_route, best_distance, iteration,
                all_routes, all_distances, route, visited, total_distance,
                returned>>
inputVars == <<addresses, locations, start_location, n_ants, n_iterations, rho, q0>>

\* lines 173-176: geocode every address, keep the resolved ones, and exit
\* when fewer than two are left.  (Line 173 asks the geocoder twice for
\* every address; the model takes both answers to be the same.)
GeocodeAll ==
    /\ pc = "geocode"
    /\ \E ok \in SUBSET (1 .. Len(addresses)) :
          LET locs == Geocoded(addresses, ok, Len(addresses))
          IN  /\ locations' = locs
              /\ pc' = IF TooFewLocations(locs) THEN "exit" ELSE "input"
    /\ UNCHANGED <<addresses, start_location, n_ants, n_iterations, rho, q0,
                   plotted>>
    /\ UNCHANGED solverVars

\* lines 177-183: read the start location and exit when it is out of range
SelectStart ==
    /\ pc = "input"
    /\ \E s \in StartInputs(num_locations) :
          /\ start_location' = s
          /\ pc' = IF InvalidStart(s, locations) THEN "exit" ELSE "call"
    /\ UNCHANGED <<addresses, locations, n_ants, n_iterations, rho, q0, plotted>>
    /\ UNCHANGED solverVars

\* line 184 and lines 49-59: enter solve_aco
SolveInit ==
    /\ pc = "call"
    /\ pheromone_matrix' = InitialPheromone
    /\ best_route' = NoRoute
    /\ best_distance' = Inf
    /\ pc' = "iter"
    /\ UNCHANGED <<iteration, all_routes, all_distances, route, visited,
                   total_distance, returned, plotted>>
    /\ UNCHANGED inputVars

\* lines 62-64: start the next iteration
IterStart ==
    /\ pc = "iter"
    /\ iteration < n_iterations
    /\ all_routes' = <<>>
    /\ all_distances' = <<>>
    /\ pc' = "ant"
    /\ UNCHANGED <<pheromone_matrix, best_route, best_distance, iteration,
                   route, visited, total_distance, returned, plotted>>
    /\ UNCHANGED inputVars

\* lines 67-70: start the next ant
AntStart ==
    /\ pc = "ant"
    /\ ~AllAntsDone
    /\ route' = <<start_location>>
    /\ visited' = {start_location}
    /\ total_distance' = 0
    /\ pc' = "build"
    /\ UNCHANGED <<pheromone_matrix, best_route, best_distance, iteration,
                   all_routes, all_distances, returned, plotted>>
    /\ UNCHANGED inputVars

\* lines 96-98
MoveTo(current, next_location) ==
    /\ route' = Append(route, next_location)
    /\ visited' = visited \cup {next_location}
    /\ total_distance' = total_distance + distance_matrix(current, next_location)
    /\ pc' = "build"

\* lines 73-98: one pass of the while loop.  A pass that appends a visited
\* location leaves the loop condition as it was, so the loop may run without
\* end; the model stops extending a route at MaxRouteLen entries.
Step ==
    /\ pc = "build"
    /\ Cardinality(visited) < num_locations
    /\ Len(route) < MaxRouteLen
    /\ LET current == route[Len(route)]
           probabilities == Normalize(Scores(pheromone_matrix, current, visited))
       IN  \E r \in RandomDraws :
             \/ /\ Exploits(r, q0)
                /\ MoveTo(current, Exploit(probabilities))
             \/ /\ ~Exploits(r, q0)
                /\ \E j \in ChoicesResults(probabilities) :
                      MoveTo(current, j)
             \/ /\ ~Exploits(r, q0)
                /\ ChoicesRaises(probabilities)
                /\ pc' = "error"
                /\ UNCHANGED <<route, visited, total_distance>>
    /\ UNCHANGED <<pheromone_matrix, best_route, best_distance, iteration,
                   all_routes, all_distances, returned, plotted>>
    /\ UNCHANGED inputVars

\* lines 100-109: close the route, record it, update the best solution
CloseRoute ==
    /\ pc = "build"
    /\ Cardinality(visited) >= num_locations
    /\ LET total == total_distance + ClosingDistance(route)
           closed == Append(route, route[1])
       IN  /\ total_distance' = total
           /\ route' = closed
           /\ all_routes' = Append(all_routes, closed)
           /\ all_distances' = Append(all_distances, total)
           /\ IF Improves(total, best_distance)
              THEN best_distance' = R(total) /\ best_route' = closed
              ELSE UNCHANGED <<best_distance, best_route>>
    /\ pc' = "ant"
    /\ UNCHANGED <<pheromone_matrix, iteration, visited, returned, plotted>>
    /\ UNCHANGED inputVars

\* lines 111-118: evaporation, then the deposits of every route
UpdatePheromone ==
    /\ pc = "ant"
    /\ AllAntsDone
    /\ pheromone_matrix' =
          DepositAll(Evaporate(pheromone_matrix), all_routes, all_distances,
                     Len(all_routes))
    /\ iteration' = iteration + 1
    /\ pc' = "iter"
    /\ UNCHANGED <<best_route, best_distance, all_routes, all_distances, route,
                   visited, total_distance, returned, plotted>>
    /\ UNCHANGED inputVars

\* line 120
Return ==
    /\ pc = "iter"
    /\ iteration >= n_iterations
    /\ returned' = best_route
    /\ pc' = "plot"
    /\ UNCHANGED <<pheromone_matrix, best_route, best_distance, iteration,
                   all_routes, all_distances, route, visited, total_distance,
                   plotted>>
    /\ UNCHANGED inputVars

\* lines 185-189 and plot_route
PlotRoute ==
    /\ pc = "plot"
    /\ plotted' = PlotDistance(returned, Len(returned) - 1)
    /\ pc' = "done"
    /\ UNCHANGED solverVars
    /\ UNCHANGED inputVars

Next ==
    \/ GeocodeAll
    \/ SelectStart
    \/ SolveInit
    \/ IterStart
    \/ AntStart
    \/ Step
    \/ CloseRoute
    \/ UpdatePheromone
    \/ Return
    \/ PlotRoute

Spec == Init /\ [][Next]_vars


-----------------------------------------------------------------------------
(* Properties. *)

InSolver == pc \in {"iter", "ant", "build", "error", "plot", "done"}
Building == pc = "build" /\ Cardinality(visited) < num_locations

PositiveDistances ==
    \A i, j \in Indices : i # j => distance_matrix(i, j) > 0
ZeroDistancePair ==
    \E i, j \in Indices : i # j /\ distance_matrix(i, j) = 0

\* a closed tour: length N+1, from start_location back to it, the first N
\* entries a permutation of the indices
IsTour(rt) ==
    /\ Len(rt) = num_locations + 1
    /\ rt[1] = start_location
    /\ rt[Len(rt)] = start_location
    /\ {rt[k] : k \in 1 .. num_locations} = Indices

\* the distance of a route, recomputed from the distance matrix
RECURSIVE PathSum(_)
PathSum(rt) ==
    IF Len(rt) <= 1 THEN 0
    ELSE PathSum(SubSeq(rt, 1, Len(rt) - 1))
         + distance_matrix(rt[Len(rt) - 1], rt[Len(rt)])

Traverses(rt, i, j) == \E k \in 1 .. Len(rt) - 1 : rt[k] = i /\ rt[k + 1] = j

\* C1: every route an ant completes, and the route solve_aco returns, is a
\* closed tour: N+1 entries, first and last the start index, every index
\* visited exactly once.
C1_RoutesAreTours ==
    InSolver =>
        /\ \A k \in 1 .. Len(all_routes) : IsTour(all_routes[k])
        /\ pc \in {"plot", "done"} => IsTour(returned)

\* C2: best_distance starts at +infinity and never increases, and best_route / best_distance are
\* replaced only by a route just completed whose total distance is strictly
\* less than the best distance so far.
C2_BestOnlyImproves ==
    [][/\ pc = "call" => best_distance' = Inf /\ best_route' = NoRoute
       /\ InSolver =>
            /\ ~RGt(best_distance', best_distance)
            /\ <<best_route, best_distance>>' # <<best_route, best_distance>> =>
                  /\ pc = "build" /\ pc' = "ant"
                  /\ RLt(R(total_distance'), best_distance)
                  /\ best_distance' = R(total_distance')
                  /\ best_route' = route']_vars

\* C2 witness: a third ant ties with the second, which had beaten the first;
\* the best route is still the second ant's.
C2_Witness ==
    /\ pc = "ant"
    /\ Len(all_routes) = 3
    /\ all_distances[2] < all_distances[1]
    /\ all_distances[3] = all_distances[2]
    /\ all_routes[3] # all_routes[2]
    /\ best_route = all_routes[2]
    /\ best_distance = R(all_distances[2])

\* C3: the total distance tracked for every completed route is the sum of
\* the distance matrix over the consecutive pairs of the closed route, and
\* best_distance is that sum over best_route whenever there is a best route.
C3_TrackedDistanceIsPathSum ==
    InSolver =>
        /\ \A k \in 1 .. Len(all_routes) :
              /\ Len(all_distances) = Len(all_routes)
              /\ all_distances[k] = PathSum(all_routes[k])
        /\ pc = "build" => total_distance = PathSum(route)
        /\ best_route # NoRoute => best_distance = R(PathSum(best_route))
        /\ pc = "done" => R(plotted) = best_distance

\* C3 witness: a run that ended with a best route of four locations
C3_Witness ==
    /\ pc = "done"
    /\ num_locations = 4
    /\ iteration = 2
    /\ Len(best_route) = 5
    /\ plotted = 6

\* C4: the pheromone matrix changes only in the update that follows the last
\* ant of an iteration; while the ants of an iteration build their routes
\* it keeps its value.
C4_PheromoneFrozenWhileAntsBuild ==
    [][InSolver /\ pheromone_matrix' # pheromone_matrix =>
          /\ pc = "ant" /\ pc' = "iter"
          /\ Len(all_routes) = n_ants
          /\ \A k \in 1 .. n_ants : Len(all_routes[k]) > num_locations]_vars

\* C4 witness: the second ant of the second iteration is building its route
\* on the pheromone the first update left
C4_Witness ==
    /\ pc = "build"
    /\ iteration = 1
    /\ Len(all_routes) = 1
    /\ Len(route) = 3
    /\ pheromone_matrix # InitialPheromone

\* C5: with q0 = 1 all ants of an iteration build the same route, and the
\* route under construction follows it too.
C5_SameRouteWhenExploiting ==
    (InSolver /\ q0 = R(1)) =>
        /\ \A i, j \in 1 .. Len(all_routes) : all_routes[i] = all_routes[j]
        /\ (pc = "build" /\ Len(all_routes) >= 1 /\ Len(route) <= Len(all_routes[1])) =>
              route = SubSeq(all_routes[1], 1, Len(route))

\* C5 witness: three ants of one iteration have completed their routes over
\* four locations under q0 = 1
C5_Witness ==
    /\ q0 = R(1)
    /\ num_locations = 4
    /\ Len(all_routes) = 3
    /\ iteration = 0

\* C6: with fewer than two locations, or a start index out of range, the
\* program exits: solve_aco is not entered, no route is built, no pheromone
\* is set, nothing is returned or plotted.
C6_InvalidInputExits ==
    ( \/ (pc # "geocode" /\ num_locations < 2)
      \/ (pc \notin {"geocode", "input"}
            /\ start_location \notin 0 .. num_locations - 1) )
    => /\ pc = "exit"
       /\ pheromone_matrix = <<>>
       /\ iteration = 0
       /\ all_routes = <<>>
       /\ route = <<>>
       /\ returned = NoRoute
       /\ plotted = -1

\* C6 witness: two or more locations and a start index one past the last
C6_Witness ==
    /\ pc = "exit"
    /\ num_locations >= 2
    /\ start_location = num_locations

\* C7: with two distinct locations at distance 0, no score and no
\* probability is infinite or nan, and the routes built are closed tours.
C7_NoInfNanWithZeroDistance ==
    (InSolver /\ ZeroDistancePair) =>
        /\ Building =>
              LET scores == Scores(pheromone_matrix, route[Len(route)], visited)
                  probabilities == Normalize(scores)
              IN  \A k \in 1 .. num_locations :
                     IsFinite(scores[k]) /\ IsFinite(probabilities[k])
        /\ \A k \in 1 .. Len(all_routes) : IsTour(all_routes[k])

\* C8: with positive pairwise distances, at every step of every route
\* construction the scores of the unvisited candidates sum to more than 0,
\* and every location appended to a route was unvisited.
C8_ScoreSumPositive ==
    (InSolver /\ PositiveDistances) =>
        /\ Building =>
              RGt(RSum(Scores(pheromone_matrix, route[Len(route)], visited)), R(0))
        /\ pc = "build" => Len(route) = Cardinality(visited)

\* the cell [i][j] after an update, from the cell before it and the routes
\* of the iteration
RECURSIVE DepositedOn(_, _, _)
DepositedOn(i, j, n) ==
    IF n = 0 THEN R(0)
    ELSE RAdd(DepositedOn(i, j, n - 1),
              IF Traverses(all_routes[n], i, j)
              THEN RRecip(R(all_distances[n])) ELSE R(0))

\* C9: an update turns every cell P[i][j] into (1 - rho) * P[i][j] plus
\* 1 / (total distance) for every ant whose route goes from i to j; the
\* reverse cell gets nothing from that edge, and a cell on no route only
\* shrinks by the factor.
C9_UpdateIsEvaporationPlusDeposits ==
    [][(pc = "ant" /\ pc' = "iter") =>
          \A i, j \in Indices :
             pheromone_matrix'[i][j] =
                RAdd(RMul(RSub(R(1), rho), pheromone_matrix[i][j]),
                     DepositedOn(i, j, Len(all_routes)))]_vars

\* C9 witness: after an update under rho = 1/2 an edge holds a deposit its
\* reverse does not, and the diagonal has only shrunk
C9_Witness ==
    /\ pc = "iter"
    /\ iteration = 1
    /\ rho = <<1, 2>>
    /\ num_locations = 4
    /\ \E i, j \in Indices :
          /\ i # j
          /\ RGt(pheromone_matrix[i][j], rho)
          /\ pheromone_matrix[j][i] = rho
    /\ \A i \in Indices : pheromone_matrix[i][i] = rho

\* C10: with positive pairwise distances the run raises nothing, every
\* route-building loop makes exactly N-1 selections, every iteration builds
\* exactly n_ants routes and the run returns after exactly n_iterations
\* iterations.
C10_ExactLoopCounts ==
    (InSolver /\ PositiveDistances) =>
        /\ pc # "error"
        /\ pc = "build" => Len(route) <= num_locations + 1
        /\ \A k \in 1 .. Len(all_routes) : Len(all_routes[k]) = num_locations + 1
        /\ Len(all_routes) <= n_ants
        /\ iteration <= n_iterations
        /\ pc \in {"plot", "done"} => iteration = n_iterations /\ returned = best_route

=============================================================================
